---------------------------- MODULE Spec2Model ----------------------------
(***************************************************************************)
(* Galaxery (server.js): an Express + SQLite image board.  Requests are    *)
(* async handlers; every `await run/get/all(...)` is one SQL statement,    *)
(* executed atomically by the single SQLite connection, and the handlers   *)
(* of different requests interleave between statements.                    *)
(*                                                                         *)
(* Text is modelled as a sequence of one-character strings, so that        *)
(* splitting, trimming, lower-casing and marker handling are computed.     *)
(***************************************************************************)
EXTENDS Integers, Sequences, FiniteSets, Bags, TLC

\* ------------------------------------------------------------------ bounds
NumSlots == 3       \* requests in one execution of Spec (one per slot)
NumUsers == 2       \* registered accounts (users.id = 1..NumUsers)
MaxTime  == 1       \* Date.now() takes the values 1..MaxTime
MaxPagePosts == 25  \* posts of the largest store of SpecPage

Slots == 1..NumSlots
Users == 1..NumUsers
NoUser == 0         \* req.session.user is undefined

\* ------------------------------------------------------------------- text
Hash == "#"
Ws   == {" "}                                  \* \s
Comma == {","}

\* String.prototype.toLowerCase, per character
LowerChar(c) ==
  CASE c = "A" -> "a"
    [] c = "B" -> "b"
    [] c = "C" -> "c"
    [] OTHER -> c

toLowerCase(t) == [i \in 1..Len(t) |-> LowerChar(t[i])]

startsWithHash(t) == Len(t) >= 1 /\ t[1] = Hash

\* String.prototype.split(sep) for a one-character separator out of seps:
\* the tokens of text[i..], empty tokens included
RECURSIVE SplitAt(_, _, _)
SplitAt(text, seps, i) ==
  IF i > Len(text) THEN << <<>> >>
  ELSE LET rest == SplitAt(text, seps, i + 1)
       IN  IF text[i] \in seps
             THEN << <<>> >> \o rest
             ELSE << <<text[i]>> \o Head(rest) >> \o Tail(rest)

split(text, seps) == SplitAt(text, seps, 1)

\* text.split(/\s+/): a run of separators separates once, so an empty token
\* appears only before a leading run and after a trailing run
splitRuns(text, seps) ==
  LET parts == split(text, seps)
      n     == Len(parts)
      keep  == {i \in 1..n : parts[i] # <<>> \/ i = 1 \/ i = n}
      Nth(k) == CHOOSE i \in keep : Cardinality({j \in keep : j < i}) = k - 1
  IN  [k \in 1..Cardinality(keep) |-> parts[Nth(k)]]

\* String.prototype.trim
RECURSIVE trimLeft(_)
trimLeft(t) == IF t # <<>> /\ Head(t) \in Ws THEN trimLeft(Tail(t)) ELSE t

RECURSIVE trimRight(_)
trimRight(t) ==
  IF t # <<>> /\ t[Len(t)] \in Ws THEN trimRight(SubSeq(t, 1, Len(t) - 1)) ELSE t

trim(t) == trimRight(trimLeft(t))

\* t.replace(/^#+/, '#')
RECURSIVE stripHashes(_)
stripHashes(t) == IF startsWithHash(t) THEN stripHashes(Tail(t)) ELSE t

\* a marker put in front of the token instead of replacing its markers
prependHash(t) == <<Hash>> \o t

collapseHashes(t) == IF startsWithHash(t) THEN <<Hash>> \o stripHashes(t) ELSE t

\* Array.from(new Set(tokens)): first occurrences, in order
RECURSIVE dedupe(_)
dedupe(s) ==
  IF s = <<>> THEN <<>>
  ELSE LET init == dedupe(SubSeq(s, 1, Len(s) - 1))
           last == s[Len(s)]
       IN  IF \E i \in 1..Len(init) : init[i] = last THEN init ELSE Append(init, last)

Range(s) == {s[i] : i \in 1..Len(s)}

\* Array.prototype.join(sep)
RECURSIVE join(_, _)
join(s, sep) ==
  IF s = <<>> THEN <<>>
  ELSE IF Len(s) = 1 THEN s[1]
  ELSE s[1] \o sep \o join(Tail(s), sep)

\* function parseTags(text)
parseTags(text) ==
  IF text = <<>> THEN <<>>
  ELSE LET tokens  == splitRuns(text, Ws)
           trimmed == [i \in 1..Len(tokens) |-> trim(tokens[i])]
           marked  == SelectSeq(trimmed, startsWithHash)
           norm    == [i \in 1..Len(marked) |-> toLowerCase(collapseHashes(marked[i]))]
       IN  dedupe(norm)

\* req.query.tags split into the requested names (server.js line 165)
tagsQueryOf(text) ==
  LET parts   == split(text, Comma)
      trimmed == [i \in 1..Len(parts) |-> trim(parts[i])]
  IN  SelectSeq(trimmed, LAMBDA t : t # <<>>)

\* the search handler's normalisation of one requested name (line 177)
normTag(t) == IF startsWithHash(t) THEN toLowerCase(t) ELSE <<Hash>> \o toLowerCase(t)

normTagsOf(tagsQuery) == [i \in 1..Len(tagsQuery) |-> normTag(tagsQuery[i])]

\* ------------------------------------------------------------------ store
VARIABLES
  posts,      \* table posts: rows [id, user_id, created_at]
  postSeq,    \* AUTOINCREMENT counter of posts
  tags,       \* table tags: rows [id, name]
  tagSeq,     \* AUTOINCREMENT counter of tags
  post_tags,  \* table post_tags: pairs <<post_id, tag_id>>
  likes,      \* table likes: a bag of rows <<user_id, post_id>>
  favorites,  \* table favorites: a bag of rows <<user_id, post_id>>
  clock,      \* the last value Date.now() returned
  scan,       \* the engine's row order among rows with equal sort keys
  pc,         \* per request slot: the statement its handler awaits next
  loc         \* per request slot: the handler's locals and its response

store == <<posts, postSeq, tags, tagSeq, post_tags, likes, favorites>>
vars  == <<posts, postSeq, tags, tagSeq, post_tags, likes, favorites, clock, scan, pc, loc>>

ScanOrders == {"asc", "desc"}

\* minimum of a non-empty set of integers
Min(S) == CHOOSE x \in S : \A y \in S : x <= y

\* all orders in which the rows of a result set may come back
RECURSIVE Perms(_)
Perms(S) ==
  IF S = {} THEN {<<>>}
  ELSE UNION {{<<x>> \o p : p \in Perms(S \ {x})} : x \in S}

\* the lookup without its WHERE name = ? clause
SelectAnyTagId(n) ==
  IF tags = {} THEN 0 ELSE Min({r.id : r \in tags})

\* get('SELECT id FROM tags WHERE name = ?'): the id, or 0 for no row
SelectTagId(n) ==
  LET rows == {r \in tags : r.name = n}
  IN  IF rows = {} THEN 0 ELSE Min({r.id : r \in rows})

\* the tags table declared without UNIQUE on name
NoNameConstraint(n) == TRUE

\* tags.name TEXT UNIQUE: whether INSERT INTO tags(name) VALUES(n) is accepted
TagNameUniqueOk(n) == \A r \in tags : r.name # n

\* likes and favorites declared without their PRIMARY KEY
NoPairKey(table, row) == TRUE

\* PRIMARY KEY(user_id, post_id) of likes and of favorites: whether the
\* INSERT of row is accepted into table
PairKeyOk(table, row) == ~BagIn(row, table)

\* DELETE FROM <table> WHERE user_id=? AND post_id=?
DeletePair(table, row) ==
  [r \in (DOMAIN table) \ {row} |-> table[r]]

\* INSERT INTO <table>(user_id, post_id) VALUES(?,?)
InsertPair(table, row) == table (+) SetToBag({row})

\* SELECT t.name FROM tags t JOIN post_tags pt ON pt.tag_id = t.id WHERE pt.post_id = ?
TagNamesOf(pid) ==
  {r.name : r \in {t \in tags : <<pid, t.id>> \in post_tags}}

\* get('SELECT * FROM posts WHERE id = ?'): the rows with that id
PostRows(pid) == {p \in posts : p.id = pid}

\* (SELECT COUNT(*) FROM likes l WHERE l.post_id = p.id)
LikesCount(pid) ==
  LET rows == {r \in DOMAIN likes : r[2] = pid}
      RECURSIVE Sum(_)
      Sum(S) == IF S = {} THEN 0
                ELSE LET r == CHOOSE x \in S : TRUE IN likes[r] + Sum(S \ {r})
  IN  Sum(rows)

\* --------------------------------------------------------- request inputs
Ta == <<"#", "a">>
Tb == <<"#", "b">>

\* req.body.tags of upload and edit requests
TagTexts == { <<>>, <<" ">>, Ta, Tb, <<"#", "B", " ", "#", "#", "a", " ", "x">> }

NumTargets == 2                 \* requests name the post ids 1..NumTargets
TargetPosts == 1..NumTargets
Sessions == Users \cup {NoUser}

Idle == [kind |-> "none"]

Started(s) == pc[s] # "idle"
Finished(s) == pc[s] \in {"done", "failed"}

\* res.status(...).send / res.redirect / res.json: the handler returns
Respond(s, st) ==
  /\ pc' = [pc EXCEPT ![s] = "done"]
  /\ loc' = [loc EXCEPT ![s] = [@ EXCEPT !.status = st]]

\* an early return with an error status, before any statement ran
Reject(s, kind, st) ==
  /\ pc' = [pc EXCEPT ![s] = "done"]
  /\ loc' = [loc EXCEPT ![s] = [kind |-> kind, status |-> st]]

\* a rejected await in an async handler: nothing catches it, no response
Throw(s) ==
  /\ pc' = [pc EXCEPT ![s] = "failed"]
  /\ UNCHANGED loc

\* ------------------------------------------- ensureTagIds, attachTagsToPost
\* const tagIds = await ensureTagIds(tags); await attachTagsToPost(id, tagIds)
\* entered with the parsed tags: both loops are empty for an empty list
StartTagging(s, l) ==
  IF l.tags = <<>>
    THEN /\ pc' = [pc EXCEPT ![s] = "done"]
         /\ loc' = [loc EXCEPT ![s] = [l EXCEPT !.status = 302]]
    ELSE /\ pc' = [pc EXCEPT ![s] = "ensure_get"]
         /\ loc' = [loc EXCEPT ![s] = l]

\* ids.push(...) and the loop's next turn
PushId(s, id) ==
  LET ids == Append(loc[s].ids, id)
  IN  /\ loc' = [loc EXCEPT ![s] = [@ EXCEPT !.ids = ids]]
      /\ pc' = [pc EXCEPT ![s] = IF Len(ids) = Len(loc[s].tags) THEN "attach" ELSE "ensure_get"]

\* const row = await get('SELECT id FROM tags WHERE name = ?', [t])
EnsureGet(s) ==
  /\ pc[s] = "ensure_get"
  /\ LET t   == loc[s].tags[Len(loc[s].ids) + 1]
         row == SelectTagId(t)
     IN  IF row # 0
           THEN PushId(s, row)
           ELSE /\ pc' = [pc EXCEPT ![s] = "ensure_ins"]
                /\ UNCHANGED loc
  /\ UNCHANGED <<store, clock, scan>>

\* const r = await run('INSERT INTO tags(name) VALUES(?)', [t])
EnsureInsert(s) ==
  /\ pc[s] = "ensure_ins"
  /\ LET t == loc[s].tags[Len(loc[s].ids) + 1]
     IN  IF TagNameUniqueOk(t)
           THEN /\ tags' = tags \cup {[id |-> tagSeq + 1, name |-> t]}
                /\ tagSeq' = tagSeq + 1
                /\ PushId(s, tagSeq + 1)
           ELSE /\ Throw(s)
                /\ UNCHANGED <<tags, tagSeq>>
  /\ UNCHANGED <<posts, postSeq, post_tags, likes, favorites, clock, scan>>

\* await run('INSERT OR IGNORE INTO post_tags(post_id, tag_id) VALUES(?,?)')
Attach(s) ==
  /\ pc[s] = "attach"
  /\ LET k == loc[s].att + 1
     IN  /\ post_tags' = post_tags \cup {<<loc[s].post, loc[s].ids[k]>>}
         /\ IF k = Len(loc[s].ids)
              THEN /\ pc' = [pc EXCEPT ![s] = "done"]
                   /\ loc' = [loc EXCEPT ![s] = [@ EXCEPT !.att = k, !.status = 302]]
              ELSE /\ loc' = [loc EXCEPT ![s] = [@ EXCEPT !.att = k]]
                   /\ UNCHANGED pc
  /\ UNCHANGED <<posts, postSeq, tags, tagSeq, likes, favorites, clock, scan>>

\* ----------------------------------------------------------- POST /upload
\* the handler up to the Cloudinary upload: it reads Date.now()
UploadStart(s, u, hasFile, text) ==
  /\ pc[s] = "idle"
  /\ IF u = NoUser
       THEN Reject(s, "upload", 403) /\ UNCHANGED clock
     ELSE IF ~hasFile
       THEN Reject(s, "upload", 400) /\ UNCHANGED clock
     ELSE \E t \in clock..MaxTime :
            /\ t >= 1
            /\ clock' = t
            /\ pc' = [pc EXCEPT ![s] = "up_insert"]
            /\ loc' = [loc EXCEPT ![s] =
                 [kind |-> "upload", user |-> u, status |-> 0, post |-> 0,
                  tags |-> parseTags(text), created_at |-> t,
                  ids |-> <<>>, att |-> 0]]
  /\ UNCHANGED <<store, scan>>

\* await run('INSERT INTO posts(user_id, filename, created_at) VALUES(?,?,?)')
UploadInsert(s) ==
  /\ pc[s] = "up_insert"
  /\ posts' = posts \cup {[id |-> postSeq + 1, user_id |-> loc[s].user,
                           created_at |-> loc[s].created_at]}
  /\ postSeq' = postSeq + 1
  /\ StartTagging(s, [loc[s] EXCEPT !.post = postSeq + 1])
  /\ UNCHANGED <<tags, tagSeq, post_tags, likes, favorites, clock, scan>>

\* ------------------------------------------------------ POST /post/:id/edit
\* tagsInput given: parse it; blank: read the post's current tags first
EditLoad(s, u, pid, text) ==
  /\ pc[s] = "idle"
  /\ LET l0 == [kind |-> "edit", user |-> u, status |-> 0, post |-> pid,
                tags |-> <<>>, ids |-> <<>>, att |-> 0, old |-> {}]
     IN  IF u = NoUser
           THEN Reject(s, "edit", 401)
         ELSE IF PostRows(pid) = {}
           THEN Reject(s, "edit", 404)
         ELSE IF \E p \in PostRows(pid) : p.user_id # u
           THEN Reject(s, "edit", 403)
         ELSE IF trim(text) = <<>>
           THEN /\ pc' = [pc EXCEPT ![s] = "ed_fallback"]
                /\ loc' = [loc EXCEPT ![s] = l0]
         ELSE /\ pc' = [pc EXCEPT ![s] = "ed_delete"]
              /\ loc' = [loc EXCEPT ![s] = [l0 EXCEPT !.tags = parseTags(text)]]
  /\ UNCHANGED <<store, clock, scan>>

\* const existingTagRows = await all('SELECT t.name ...'); the rows come back
\* in an order SQL leaves open
EditFallback(s) ==
  /\ pc[s] = "ed_fallback"
  /\ \E rows \in Perms(TagNamesOf(loc[s].post)) :
       loc' = [loc EXCEPT ![s] = [@ EXCEPT !.tags = parseTags(join(rows, <<" ">>))]]
  /\ pc' = [pc EXCEPT ![s] = "ed_delete"]
  /\ UNCHANGED <<store, clock, scan>>

\* await run('DELETE FROM post_tags WHERE post_id = ?', [post.id])
\* (loc.old records the tag set the statement removed)
EditDelete(s) ==
  /\ pc[s] = "ed_delete"
  /\ post_tags' = {pt \in post_tags : pt[1] # loc[s].post}
  /\ StartTagging(s, [loc[s] EXCEPT !.old = TagNamesOf(loc[s].post)])
  /\ UNCHANGED <<posts, postSeq, tags, tagSeq, likes, favorites, clock, scan>>

\* ---------------------------------------------------- POST /post/:id/delete
\* the delete handler without its comparison of post.user_id with the session
DeleteLoadAnyUser(s, u, pid) ==
  /\ pc[s] = "idle"
  /\ LET l0 == [kind |-> "delete", user |-> u, status |-> 0, post |-> pid]
     IN  IF u = NoUser
           THEN Reject(s, "delete", 401)
         ELSE IF PostRows(pid) = {}
           THEN Reject(s, "delete", 404)
         ELSE /\ pc' = [pc EXCEPT ![s] = "del_tags"]
              /\ loc' = [loc EXCEPT ![s] = l0]
  /\ UNCHANGED <<store, clock, scan>>

DeleteLoad(s, u, pid) ==
  /\ pc[s] = "idle"
  /\ LET l0 == [kind |-> "delete", user |-> u, status |-> 0, post |-> pid]
     IN  IF u = NoUser
           THEN Reject(s, "delete", 401)
         ELSE IF PostRows(pid) = {}
           THEN Reject(s, "delete", 404)
         ELSE IF \E p \in PostRows(pid) : p.user_id # u
           THEN Reject(s, "delete", 403)
         ELSE /\ pc' = [pc EXCEPT ![s] = "del_tags"]
              /\ loc' = [loc EXCEPT ![s] = l0]
  /\ UNCHANGED <<store, clock, scan>>

\* the delete handler also removing the tags no other post uses
DeleteTagsAndOrphans(s) ==
  /\ pc[s] = "del_tags"
  /\ post_tags' = {pt \in post_tags : pt[1] # loc[s].post}
  /\ tags' = {t \in tags : \E pt \in post_tags : pt[2] = t.id /\ pt[1] # loc[s].post}
  /\ pc' = [pc EXCEPT ![s] = "del_post"]
  /\ UNCHANGED <<posts, postSeq, tagSeq, likes, favorites, clock, scan, loc>>

\* await run('DELETE FROM post_tags WHERE post_id=?', [post.id])
DeleteTags(s) ==
  /\ pc[s] = "del_tags"
  /\ post_tags' = {pt \in post_tags : pt[1] # loc[s].post}
  /\ pc' = [pc EXCEPT ![s] = "del_post"]
  /\ UNCHANGED <<posts, postSeq, tags, tagSeq, likes, favorites, clock, scan, loc>>

\* await run('DELETE FROM posts WHERE id=?', [post.id])
DeletePost(s) ==
  /\ pc[s] = "del_post"
  /\ posts' = {p \in posts : p.id # loc[s].post}
  /\ Respond(s, 302)
  /\ UNCHANGED <<postSeq, tags, tagSeq, post_tags, likes, favorites, clock, scan>>

\* ------------------------------------------------------ POST /post/:id/like
\* const exists = await get('SELECT 1 FROM likes WHERE user_id=? AND post_id=?')
LikeGet(s, u, pid) ==
  /\ pc[s] = "idle"
  /\ LET l0 == [kind |-> "like", user |-> u, status |-> 0, post |-> pid, count |-> 0]
     IN  IF u = NoUser
           THEN Reject(s, "like", 401)
           ELSE /\ pc' = [pc EXCEPT ![s] =
                            IF BagIn(<<u, pid>>, likes) THEN "like_del" ELSE "like_ins"]
                /\ loc' = [loc EXCEPT ![s] = l0]
  /\ UNCHANGED <<store, clock, scan>>

\* if(exists) await run('DELETE FROM likes WHERE user_id=? AND post_id=?')
LikeDelete(s) ==
  /\ pc[s] = "like_del"
  /\ likes' = DeletePair(likes, <<loc[s].user, loc[s].post>>)
  /\ pc' = [pc EXCEPT ![s] = "like_count"]
  /\ UNCHANGED <<posts, postSeq, tags, tagSeq, post_tags, favorites, clock, scan, loc>>

\* else await run('INSERT INTO likes(user_id, post_id) VALUES(?,?)')
LikeInsert(s) ==
  /\ pc[s] = "like_ins"
  /\ LET row == <<loc[s].user, loc[s].post>>
     IN  IF PairKeyOk(likes, row)
           THEN /\ likes' = InsertPair(likes, row)
                /\ pc' = [pc EXCEPT ![s] = "like_count"]
                /\ UNCHANGED loc
           ELSE /\ Throw(s)
                /\ UNCHANGED likes
  /\ UNCHANGED <<posts, postSeq, tags, tagSeq, post_tags, favorites, clock, scan>>

\* const likes = await get('SELECT COUNT(*) AS c FROM likes WHERE post_id=?')
LikeCount(s) ==
  /\ pc[s] = "like_count"
  /\ pc' = [pc EXCEPT ![s] = "done"]
  /\ loc' = [loc EXCEPT ![s] = [@ EXCEPT !.status = 200, !.count = LikesCount(loc[s].post)]]
  /\ UNCHANGED <<store, clock, scan>>

\* ------------------------------------------------------- POST /post/:id/fav
FavGet(s, u, pid) ==
  /\ pc[s] = "idle"
  /\ LET l0 == [kind |-> "fav", user |-> u, status |-> 0, post |-> pid]
     IN  IF u = NoUser
           THEN Reject(s, "fav", 401)
           ELSE /\ pc' = [pc EXCEPT ![s] =
                            IF BagIn(<<u, pid>>, favorites) THEN "fav_del" ELSE "fav_ins"]
                /\ loc' = [loc EXCEPT ![s] = l0]
  /\ UNCHANGED <<store, clock, scan>>

FavDelete(s) ==
  /\ pc[s] = "fav_del"
  /\ favorites' = DeletePair(favorites, <<loc[s].user, loc[s].post>>)
  /\ Respond(s, 200)
  /\ UNCHANGED <<posts, postSeq, tags, tagSeq, post_tags, likes, clock, scan>>

FavInsert(s) ==
  /\ pc[s] = "fav_ins"
  /\ LET row == <<loc[s].user, loc[s].post>>
     IN  IF PairKeyOk(favorites, row)
           THEN /\ favorites' = InsertPair(favorites, row)
                /\ Respond(s, 200)
           ELSE /\ Throw(s)
                /\ UNCHANGED favorites
  /\ UNCHANGED <<posts, postSeq, tags, tagSeq, post_tags, likes, clock, scan>>

\* ------------------------------------------------------------ GET /post/:id
\* the edits of post pid whose DELETE has run and whose response has not been
\* sent: the tag set each removed and the tag set it installs
EditsInProgress(pid) ==
  {[old |-> loc[e].old, new |-> Range(loc[e].tags)] :
     e \in {x \in DOMAIN pc : /\ pc[x] \in {"ensure_get", "ensure_ins", "attach"}
                              /\ loc[x].kind = "edit"
                              /\ loc[x].post = pid}}

\* const post = await get('SELECT p.*, u.username FROM posts p ... WHERE p.id = ?')
ViewLoad(s, u, pid) ==
  /\ pc[s] = "idle"
  /\ IF PostRows(pid) = {}
       THEN Reject(s, "view", 404)
       ELSE /\ pc' = [pc EXCEPT ![s] = "view_tags"]
            /\ loc' = [loc EXCEPT ![s] =
                 [kind |-> "view", user |-> u, status |-> 0, post |-> pid,
                  tags |-> {}, during |-> {}, likes |-> 0,
                  liked |-> FALSE, favorited |-> FALSE]]
  /\ UNCHANGED <<store, clock, scan>>

\* post.tags = (await all('SELECT t.name FROM tags t JOIN post_tags pt ...'))
\* (loc.during records the edits of the post in progress at this statement)
ViewTags(s) ==
  /\ pc[s] = "view_tags"
  /\ loc' = [loc EXCEPT ![s] = [@ EXCEPT !.tags = TagNamesOf(loc[s].post),
                                         !.during = EditsInProgress(loc[s].post)]]
  /\ pc' = [pc EXCEPT ![s] = "view_likes"]
  /\ UNCHANGED <<store, clock, scan>>

\* const likes = await get('SELECT COUNT(*) AS c FROM likes WHERE post_id = ?')
ViewLikes(s) ==
  /\ pc[s] = "view_likes"
  /\ IF loc[s].user = NoUser
       THEN /\ pc' = [pc EXCEPT ![s] = "done"]
            /\ loc' = [loc EXCEPT ![s] = [@ EXCEPT !.likes = LikesCount(loc[s].post),
                                                   !.status = 200]]
       ELSE /\ pc' = [pc EXCEPT ![s] = "view_liked"]
            /\ loc' = [loc EXCEPT ![s] = [@ EXCEPT !.likes = LikesCount(loc[s].post)]]
  /\ UNCHANGED <<store, clock, scan>>

\* const liked = await get('SELECT 1 FROM likes WHERE post_id=? AND user_id=?')
ViewLiked(s) ==
  /\ pc[s] = "view_liked"
  /\ loc' = [loc EXCEPT ![s] = [@ EXCEPT !.liked = BagIn(<<loc[s].user, loc[s].post>>, likes)]]
  /\ pc' = [pc EXCEPT ![s] = "view_fav"]
  /\ UNCHANGED <<store, clock, scan>>

\* const favorited = await get('SELECT 1 FROM favorites WHERE post_id=? AND user_id=?')
ViewFavorited(s) ==
  /\ pc[s] = "view_fav"
  /\ pc' = [pc EXCEPT ![s] = "done"]
  /\ loc' = [loc EXCEPT ![s] =
       [@ EXCEPT !.favorited = BagIn(<<loc[s].user, loc[s].post>>, favorites),
                 !.status = 200]]
  /\ UNCHANGED <<store, clock, scan>>

\* ------------------------------------------------------------------- GET /
limit == 12          \* const limit = 12
popularLimit == 40   \* LIMIT 40 of the popular-tags query
acLimit == 10        \* LIMIT 10 of the autocomplete query

\* Math.max(1, parseInt(req.query.page || '1')); page 0 stands for no parameter
pageOf(page) == IF page < 1 THEN 1 ELSE page

\* the offset counted from page 0
offsetFromZero(page) == pageOf(page) * limit

\* const offset = (page-1)*limit
offsetOf(page) == (pageOf(page) - 1) * limit

\* const sort = req.query.sort === 'oldest' ? ... : (req.query.sort === 'likes' ? ... : ...)
sortOf(sort) ==
  IF sort = "oldest" THEN "created_at ASC"
  ELSE IF sort = "likes" THEN "likes_count DESC"
  ELSE "created_at DESC"

\* the tags.id rows of SELECT id FROM tags WHERE name IN (...)
TagRowsIn(names) == {r.id : r \in {t \in tags : t.name \in Range(names)}}

\* the short-circuit taken only when no requested name resolved
UnresolvedAll(tagIds, normTags) == Cardinality(tagIds) = 0

\* if(tagIds.length !== normTags.length): some requested name resolved to no row
Unresolved(tagIds, normTags) == Cardinality(tagIds) # Len(normTags)

\* p.*, (SELECT COUNT(*) FROM likes ...) AS likes_count
PostRow(p) == [id |-> p.id, user_id |-> p.user_id, created_at |-> p.created_at,
               likes_count |-> LikesCount(p.id), tags |-> {}]

\* FROM posts p LEFT JOIN users u (every post: no join condition drops a row)
AllRows == {PostRow(p) : p \in posts}

\* FROM posts p JOIN post_tags pt ON pt.post_id = p.id [JOIN users u ON u.id = p.user_id]
\* WHERE pt.tag_id IN (tagIds) GROUP BY p.id HAVING COUNT(DISTINCT pt.tag_id) = n
HavingAll(pid, tagIds, n) ==
  /\ \E t \in tagIds : <<pid, t>> \in post_tags
  /\ Cardinality({t \in tagIds : <<pid, t>> \in post_tags}) = n

MatchRows(tagIds, n) ==
  {PostRow(p) : p \in {q \in posts : q.user_id \in Users /\ HavingAll(q.id, tagIds, n)}}

\* the sort key of a row under ORDER BY sort, as a number that grows down the list
OrderKey(r, sort) ==
  IF sort = "created_at ASC" THEN r.created_at
  ELSE IF sort = "likes_count DESC" THEN 0 - r.likes_count
  ELSE 0 - r.created_at

\* the place of a row in the engine's scan of the table, which orders rows
\* with equal sort keys
ScanKey(id) == IF scan = "asc" THEN id ELSE 0 - id

Before(a, b, sort) ==
  \/ OrderKey(a, sort) < OrderKey(b, sort)
  \/ OrderKey(a, sort) = OrderKey(b, sort) /\ ScanKey(a.id) < ScanKey(b.id)

\* ORDER BY sort over a set of rows with distinct ids
OrderBy(rows, sort) ==
  LET Pos(r) == Cardinality({x \in rows : Before(x, r, sort)}) + 1
  IN  [i \in 1..Cardinality(rows) |-> CHOOSE r \in rows : Pos(r) = i]

\* LIMIT lim OFFSET off
LimitOffset(sq, lim, off) ==
  IF off >= Len(sq) THEN <<>>
  ELSE SubSeq(sq, off + 1, IF off + lim < Len(sq) THEN off + lim ELSE Len(sq))

\* the usage column computed as "used at all" instead of COUNT(pt.post_id)
TagUsed(tid) == IF \E pt \in post_tags : pt[2] = tid THEN 1 ELSE 0

\* SELECT t.name, COUNT(pt.post_id) AS cnt FROM tags t LEFT JOIN post_tags pt
\* ON pt.tag_id = t.id [WHERE ...] GROUP BY t.id ORDER BY cnt DESC LIMIT lim
TagCount(tid) == Cardinality({pt \in post_tags : pt[2] = tid})

RankTags(rows, lim) ==
  LET Bef(a, b) == \/ TagCount(a.id) > TagCount(b.id)
                   \/ TagCount(a.id) = TagCount(b.id) /\ ScanKey(a.id) < ScanKey(b.id)
      Pos(r) == Cardinality({x \in rows : Bef(x, r)}) + 1
      ranked == [i \in 1..Cardinality(rows) |->
                   LET r == CHOOSE x \in rows : Pos(x) = i
                   IN  [name |-> r.name, cnt |-> TagCount(r.id)]]
  IN  LimitOffset(ranked, lim, 0)

\* Math.max(1, Math.ceil((totalCount||0)/limit))
totalPagesOf(totalCount) ==
  IF totalCount <= limit THEN 1 ELSE (totalCount + limit - 1) \div limit

\* after the posts and the count are known: the enrichment loop, or, with no
\* post to enrich, the popular-tags query
AfterCount(s, l) ==
  /\ pc' = [pc EXCEPT ![s] = IF l.posts = <<>> THEN "s_popular" ELSE "s_enrich"]
  /\ loc' = [loc EXCEPT ![s] = l]

\* the handler up to its first statement: the all-posts query, or the lookup
\* of the requested names
SearchStart(s, text, sortParam, page) ==
  /\ pc[s] = "idle"
  /\ LET tagsQuery == tagsQueryOf(text)
         l0 == [kind |-> "search", status |-> 0, tagsQuery |-> tagsQuery,
                sort |-> sortOf(sortParam), page |-> pageOf(page),
                offset |-> offsetOf(page),
                normTags |-> <<>>, tagIds |-> {}, posts |-> <<>>, totalCount |-> 0,
                k |-> 0, popularTags |-> <<>>, totalPages |-> 0]
     IN  IF Len(tagsQuery) = 0
           THEN /\ pc' = [pc EXCEPT ![s] = "s_count"]
                /\ loc' = [loc EXCEPT ![s] =
                     [l0 EXCEPT !.posts = LimitOffset(OrderBy(AllRows, l0.sort),
                                                      limit, l0.offset)]]
           ELSE LET normTags == normTagsOf(tagsQuery)
                    tagIds   == TagRowsIn(normTags)
                    l1 == [l0 EXCEPT !.normTags = normTags, !.tagIds = tagIds]
                IN  IF Unresolved(tagIds, normTags)
                      THEN /\ pc' = [pc EXCEPT ![s] = "s_popular"]
                           /\ loc' = [loc EXCEPT ![s] = l1]
                      ELSE /\ pc' = [pc EXCEPT ![s] = "s_match"]
                           /\ loc' = [loc EXCEPT ![s] = l1]
  /\ UNCHANGED <<store, clock, scan>>

\* const c = await get('SELECT COUNT(*) AS c FROM posts')
SearchCount(s) ==
  /\ pc[s] = "s_count"
  /\ AfterCount(s, [loc[s] EXCEPT !.totalCount = Cardinality(posts)])
  /\ UNCHANGED <<store, clock, scan>>

\* posts = await all(`SELECT ... HAVING COUNT(DISTINCT pt.tag_id) = ? ORDER BY ... LIMIT ? OFFSET ?`)
SearchMatch(s) ==
  /\ pc[s] = "s_match"
  /\ LET ids == loc[s].tagIds
     IN  loc' = [loc EXCEPT ![s] = [@ EXCEPT !.posts =
                   LimitOffset(OrderBy(MatchRows(ids, Cardinality(ids)), loc[s].sort),
                               limit, loc[s].offset)]]
  /\ pc' = [pc EXCEPT ![s] = "s_total"]
  /\ UNCHANGED <<store, clock, scan>>

\* const total = await get(`SELECT COUNT(*) AS c FROM (SELECT p.id ... ) t`)
SearchTotal(s) ==
  /\ pc[s] = "s_total"
  /\ LET ids == loc[s].tagIds
     IN  AfterCount(s, [loc[s] EXCEPT !.totalCount =
           Cardinality({p \in posts : HavingAll(p.id, ids, Cardinality(ids))})])
  /\ UNCHANGED <<store, clock, scan>>

\* for(const p of posts) p.tags = (await all(`SELECT t.name ...`)).map(r => r.name)
SearchEnrich(s) ==
  /\ pc[s] = "s_enrich"
  /\ LET k == loc[s].k + 1
     IN  /\ loc' = [loc EXCEPT ![s] = [@ EXCEPT !.k = k,
                      !.posts[k].tags = TagNamesOf(loc[s].posts[k].id)]]
         /\ pc' = [pc EXCEPT ![s] = IF k = Len(loc[s].posts) THEN "s_popular" ELSE "s_enrich"]
  /\ UNCHANGED <<store, clock, scan>>

\* const popularTags = await all(...); res.render('index', {...})
SearchPopular(s) ==
  /\ pc[s] = "s_popular"
  /\ pc' = [pc EXCEPT ![s] = "done"]
  /\ loc' = [loc EXCEPT ![s] = [@ EXCEPT !.status = 200,
               !.popularTags = RankTags(tags, popularLimit),
               !.totalPages = totalPagesOf(loc[s].totalCount)]]
  /\ UNCHANGED <<store, clock, scan>>

\* ------------------------------------------------------ GET /tags/autocomplete
\* SQLite's LIKE: % matches any run, _ any one character, letters match
\* without regard to case
RECURSIVE LikeMatch(_, _)
LikeMatch(pat, str) ==
  IF pat = <<>> THEN str = <<>>
  ELSE IF Head(pat) = "%"
    THEN \E k \in 0..Len(str) : LikeMatch(Tail(pat), SubSeq(str, k + 1, Len(str)))
  ELSE IF str = <<>> THEN FALSE
  ELSE IF Head(pat) = "_" THEN LikeMatch(Tail(pat), Tail(str))
  ELSE LowerChar(Head(pat)) = LowerChar(Head(str)) /\ LikeMatch(Tail(pat), Tail(str))

\* const normalized = q.startsWith('#') ? q : '#'+q
normalizedOf(q) == IF startsWithHash(q) THEN q ELSE <<Hash>> \o q

Autocomplete(s, text) ==
  /\ pc[s] = "idle"
  /\ LET q == toLowerCase(text)
         l0 == [kind |-> "autocomplete", status |-> 200, q |-> q, rows |-> <<>>]
     IN  /\ pc' = [pc EXCEPT ![s] = "done"]
         /\ IF q = <<>>
              THEN loc' = [loc EXCEPT ![s] = l0]
              ELSE loc' = [loc EXCEPT ![s] = [l0 EXCEPT !.rows =
                     RankTags({t \in tags : LikeMatch(normalizedOf(q) \o <<"%">>, t.name)},
                              acLimit)]]
  /\ UNCHANGED <<store, clock, scan>>

\* main.js, the 'input' listener of the search box: the last token typed,
\* without its leading markers, lower-cased
inputPrefix(value) ==
  LET q     == trim(value)
      parts == splitRuns(q, Ws)
      token == parts[Len(parts)]
  IN  IF q = <<>> THEN <<>> ELSE toLowerCase(stripHashes(token))

\* the listener fetches /tags/autocomplete?q=prefix unless the prefix is empty
InputListener(s, value) ==
  IF inputPrefix(value) = <<>>
    THEN /\ pc[s] = "idle"
         /\ pc' = [pc EXCEPT ![s] = "done"]
         /\ loc' = [loc EXCEPT ![s] = [kind |-> "input", status |-> 0]]
         /\ UNCHANGED <<store, clock, scan>>
    ELSE Autocomplete(s, inputPrefix(value))

\* ------------------------------------------------------------ specification
\* the database after initDB(), no request received yet
EmptyStore ==
  /\ posts = {} /\ postSeq = 0
  /\ tags = {} /\ tagSeq = 0
  /\ post_tags = {}
  /\ likes = EmptyBag /\ favorites = EmptyBag
  /\ clock = 0

NoRequests(n) ==
  /\ pc = [s \in 1..n |-> "idle"]
  /\ loc = [s \in 1..n |-> Idle]

\* requests are numbered in the order in which they arrive
MayArrive(s) == \A r \in DOMAIN pc : r < s => Started(r)

\* one request at a time
MayArriveAlone(s) == \A r \in DOMAIN pc : r < s => Finished(r)

ArriveTagging(s) ==
  \/ \E u \in Sessions, f \in BOOLEAN, x \in TagTexts : UploadStart(s, u, f, x)
  \/ \E u \in Sessions, p \in TargetPosts, x \in TagTexts : EditLoad(s, u, p, x)
  \/ \E u \in Sessions, p \in TargetPosts : DeleteLoad(s, u, p)
  \/ \E u \in Sessions, p \in TargetPosts : ViewLoad(s, u, p)

ArriveLiking(s) ==
  \/ \E u \in Sessions, p \in TargetPosts : LikeGet(s, u, p)
  \/ \E u \in Sessions, p \in TargetPosts : FavGet(s, u, p)

\* req.query.tags, req.query.sort, req.query.page of search requests
SearchTexts == { <<>>, <<" ", ",">>, <<"a">>, <<"#", "B">>, <<"a", ",", " ", "#", "b">>,
                 <<"a", ",", "a">>, <<"a", ",", "c">> }
SortParams == {"recent", "oldest", "likes"}
MaxPage == 2
PageParams == 0..MaxPage

\* req.query.q of autocomplete requests
AcTexts == { <<>>, <<"a">>, <<"#">>, <<"#", "B">>, <<"%">> }

\* e.target.value of the search box
InputTexts == { <<" ">>, <<"#">>, <<"#", "#">>, <<"#", "A">>, <<"b", " ", "#">> }

ArriveReading(s) ==
  \/ \E x \in SearchTexts, o \in SortParams, g \in PageParams : SearchStart(s, x, o, g)
  \/ \E x \in AcTexts : Autocomplete(s, x)
  \/ \E x \in InputTexts : InputListener(s, x)

StepTagging(s) ==
  \/ UploadInsert(s)
  \/ EditFallback(s)
  \/ EditDelete(s)
  \/ EnsureGet(s)
  \/ EnsureInsert(s)
  \/ Attach(s)
  \/ DeleteTags(s)
  \/ DeletePost(s)

StepViewing(s) ==
  \/ ViewTags(s)
  \/ ViewLikes(s)
  \/ ViewLiked(s)
  \/ ViewFavorited(s)

StepLiking(s) ==
  \/ LikeDelete(s)
  \/ LikeInsert(s)
  \/ LikeCount(s)
  \/ FavDelete(s)
  \/ FavInsert(s)

StepSearching(s) ==
  \/ SearchCount(s)
  \/ SearchMatch(s)
  \/ SearchTotal(s)
  \/ SearchEnrich(s)
  \/ SearchPopular(s)

\* Spec: uploads, edits, deletes and post views, NumSlots requests interleaved
\* statement by statement (no handler of this specification orders rows)
Init == EmptyStore /\ scan = "asc" /\ NoRequests(NumSlots)

Next ==
  \E s \in Slots :
    \/ MayArrive(s) /\ ArriveTagging(s)
    \/ StepTagging(s)
    \/ StepViewing(s)

Spec == Init /\ [][Next]_vars

\* SpecLikes: like and favorite toggles, NumSlots requests interleaved
NextLikes ==
  \E s \in Slots :
    \/ MayArrive(s) /\ ArriveLiking(s)
    \/ StepLiking(s)

SpecLikes == Init /\ [][NextLikes]_vars

\* SpecAll: every handler, NumSlotsAll requests interleaved
NumSlotsAll == 2

InitAll == EmptyStore /\ scan \in ScanOrders /\ NoRequests(NumSlotsAll)

NextAll ==
  \E s \in 1..NumSlotsAll :
    \/ MayArrive(s) /\ ArriveTagging(s)
    \/ MayArrive(s) /\ ArriveLiking(s)
    \/ MayArrive(s) /\ ArriveReading(s)
    \/ StepTagging(s)
    \/ StepViewing(s)
    \/ StepLiking(s)
    \/ StepSearching(s)

SpecAll == InitAll /\ [][NextAll]_vars

\* SpecSearch: one search or autocomplete request against a store drawn from
\* the stores of at most MaxSearchPosts posts over the vocabulary #a, #b:
\* any tag set per post, clock values rising (or falling) with the post id in
\* bursts of k posts per value, post i liked by i % m users
MaxSearchPosts == 3

InitSearch ==
  /\ \E n \in 0..MaxSearchPosts :
       \E tg \in [1..n -> SUBSET {1, 2}], k \in {1, 2}, dir \in {"inc", "dec"},
          m \in 1..(NumUsers + 1) :
         /\ posts = {[id |-> i, user_id |-> ((i - 1) % NumUsers) + 1,
                      created_at |-> IF dir = "inc" THEN 1 + ((i - 1) \div k)
                                     ELSE 1 + ((n - i) \div k)] : i \in 1..n}
         /\ postSeq = n
         /\ post_tags = {pt \in (1..n) \X {1, 2} : pt[2] \in tg[pt[1]]}
         /\ likes = SetToBag({ul \in Users \X (1..n) : ul[1] <= (ul[2] % m)})
         /\ clock = 1 + (n \div k)
  /\ tags = {[id |-> 1, name |-> Ta], [id |-> 2, name |-> Tb]}
  /\ tagSeq = 2
  /\ favorites = EmptyBag
  /\ scan \in ScanOrders
  /\ NoRequests(1)

NextSearch ==
  \E s \in {1} :
    \/ ArriveReading(s)
    \/ StepSearching(s)

SpecSearch == InitSearch /\ [][NextSearch]_vars

\* SpecPage: one client pages through one query, page 1, 2, ..., MaxPages,
\* against a store of up to MaxPagePosts posts, all tagged #a, uploaded in
\* bursts of k per clock value, post i liked by i % m users
MaxPages == 3

PageSizes == {0, limit, limit + 1, MaxPagePosts}

InitPage ==
  /\ \E n \in PageSizes, k \in {1, 2, MaxPagePosts}, m \in 1..(NumUsers + 1) :
       /\ posts = {[id |-> i, user_id |-> 1, created_at |-> 1 + ((i - 1) \div k)] : i \in 1..n}
       /\ postSeq = n
       /\ post_tags = {<<i, 1>> : i \in 1..n}
       /\ likes = SetToBag({ul \in Users \X (1..n) : ul[1] <= (ul[2] % m)})
       /\ clock = 1 + (n \div k)
  /\ tags = {[id |-> 1, name |-> Ta]}
  /\ tagSeq = 1
  /\ favorites = EmptyBag
  /\ scan \in ScanOrders
  /\ NoRequests(MaxPages)

PageTexts == { <<>>, <<"a">> }

PageArrive(s) ==
  /\ MayArriveAlone(s)
  /\ \E x \in PageTexts, o \in SortParams :
       /\ s > 1 => loc[1].tagsQuery = tagsQueryOf(x) /\ loc[1].sort = sortOf(o)
       /\ SearchStart(s, x, o, s)

NextPage ==
  \E s \in 1..MaxPages :
    \/ PageArrive(s)
    \/ StepSearching(s)

SpecPage == InitPage /\ [][NextPage]_vars

\* SpecRank: two reading requests (autocomplete, or the home page with its
\* popular tags) against one store drawn from the stores of at most
\* MaxRankPosts posts over the vocabulary #a, #b, #ab, any tag set per post
MaxRankPosts == 2

Tab == <<"#", "a", "b">>

InitRank ==
  /\ \E n \in 0..MaxRankPosts :
       \E tg \in [1..n -> SUBSET {1, 2, 3}] :
         /\ posts = {[id |-> i, user_id |-> 1, created_at |-> i] : i \in 1..n}
         /\ postSeq = n
         /\ post_tags = {pt \in (1..n) \X {1, 2, 3} : pt[2] \in tg[pt[1]]}
         /\ clock = n
  /\ tags = {[id |-> 1, name |-> Ta], [id |-> 2, name |-> Tb], [id |-> 3, name |-> Tab]}
  /\ tagSeq = 3
  /\ likes = EmptyBag /\ favorites = EmptyBag
  /\ scan \in ScanOrders
  /\ NoRequests(2)

ArriveRanking(s) ==
  \/ \E x \in AcTexts : Autocomplete(s, x)
  \/ \E x \in InputTexts : InputListener(s, x)
  \/ SearchStart(s, <<>>, "recent", 0)

NextRank ==
  \E s \in {1, 2} :
    \/ MayArrive(s) /\ ArriveRanking(s)
    \/ SearchCount(s)
    \/ SearchEnrich(s)
    \/ SearchPopular(s)

SpecRank == InitRank /\ [][NextRank]_vars

\* SpecParse: parseTags applied to a text of at most MaxTextLen characters, and
\* applied again to its own result joined with spaces (what the edit handler
\* does with the names it read back, server.js 318-322)
MaxTextLen == 6

TextChars == {"#", "a", "A", " "}

RECURSIVE TextsUpTo(_)
TextsUpTo(n) ==
  IF n = 0 THEN {<<>>}
  ELSE LET shorter == TextsUpTo(n - 1)
       IN  shorter \cup {Append(x, c) : x \in {y \in shorter : Len(y) = n - 1}, c \in TextChars}

InitParse ==
  /\ EmptyStore
  /\ scan = "asc"
  /\ pc = <<"idle">>
  /\ \E x \in TextsUpTo(MaxTextLen) : loc = <<[kind |-> "text", text |-> x]>>

Parse(s) ==
  /\ pc[s] = "idle"
  /\ pc' = [pc EXCEPT ![s] = "parsed"]
  /\ loc' = [loc EXCEPT ![s] = [kind |-> "parse", text |-> loc[s].text,
                                tags |-> parseTags(loc[s].text)]]
  /\ UNCHANGED <<store, clock, scan>>

Reparse(s) ==
  /\ pc[s] = "parsed"
  /\ pc' = [pc EXCEPT ![s] = "done"]
  /\ loc' = [loc EXCEPT ![s] = [kind |-> "reparse", text |-> loc[s].text,
                                tags |-> loc[s].tags,
                                again |-> parseTags(join(loc[s].tags, <<" ">>))]]
  /\ UNCHANGED <<store, clock, scan>>

NextParse ==
  \E s \in {1} :
    \/ Parse(s)
    \/ Reparse(s)

SpecParse == InitParse /\ [][NextParse]_vars

\* SpecEntry: two requests, one after the other, each an upload whose tag
\* field holds one token or a search for one token
TokenTexts == { <<"#", "a">>, <<"#", "A">>, <<"#", "#", "a">>, <<"#", "#", "A">>,
                <<"#", "b">> }

InitEntry == EmptyStore /\ scan \in ScanOrders /\ NoRequests(2)

ArriveEntry(s) ==
  \/ \E u \in Sessions, f \in BOOLEAN, x \in TokenTexts : UploadStart(s, u, f, x)
  \/ \E x \in TokenTexts, o \in SortParams, g \in PageParams : SearchStart(s, x, o, g)

NextEntry ==
  \E s \in {1, 2} :
    \/ MayArriveAlone(s) /\ ArriveEntry(s)
    \/ UploadInsert(s)
    \/ EnsureGet(s)
    \/ EnsureInsert(s)
    \/ Attach(s)
    \/ SearchMatch(s)
    \/ SearchTotal(s)
    \/ SearchEnrich(s)
    \/ SearchPopular(s)

SpecEntry == InitEntry /\ [][NextEntry]_vars

\* ------------------------------------------------------------------ claims
IsSearchDone(s) == pc[s] = "done" /\ loc[s].kind = "search"

Vocabulary == {t.name : t \in tags}

\* the posts tagged with every one of the names
TaggedWithAll(names) == {p.id : p \in {q \in posts : names \subseteq TagNamesOf(q.id)}}

Ids(sq) == [i \in 1..Len(sq) |-> sq[i].id]

\* C1: a search for a non-empty list of names that all exist in the vocabulary
\* returns only posts tagged with every requested name, and its matching set
\* holds every post tagged with all of them (SpecSearch)
C1_AndSearch ==
  \A s \in DOMAIN pc :
    (/\ IsSearchDone(s)
     /\ loc[s].tagsQuery # <<>>
     /\ Range(normTagsOf(loc[s].tagsQuery)) \subseteq Vocabulary)
    => LET names == Range(normTagsOf(loc[s].tagsQuery))
       IN  /\ \A i \in 1..Len(loc[s].posts) : names \subseteq TagNamesOf(loc[s].posts[i].id)
           /\ loc[s].totalCount = Cardinality(TaggedWithAll(names))
           /\ loc[s].page = 1 => Range(Ids(loc[s].posts)) = TaggedWithAll(names)

\* the same statement for lists that name no tag twice: it holds (SpecSearch),
\* so the repeated name is the only case in which C1_AndSearch fails
AndSearchDistinct ==
  \A s \in DOMAIN pc :
    (/\ IsSearchDone(s)
     /\ loc[s].tagsQuery # <<>>
     /\ Range(normTagsOf(loc[s].tagsQuery)) \subseteq Vocabulary
     /\ Cardinality(Range(normTagsOf(loc[s].tagsQuery))) = Len(loc[s].tagsQuery))
    => LET names == Range(normTagsOf(loc[s].tagsQuery))
       IN  /\ \A i \in 1..Len(loc[s].posts) : names \subseteq TagNamesOf(loc[s].posts[i].id)
           /\ loc[s].totalCount = Cardinality(TaggedWithAll(names))
           /\ loc[s].page = 1 => Range(Ids(loc[s].posts)) = TaggedWithAll(names)

\* C2: a search with no requested tag matches every post; a search that names
\* a tag absent from the vocabulary returns no post and totalCount 0 (SpecSearch)
C2_EmptyAndUnknown ==
  \A s \in DOMAIN pc :
    IsSearchDone(s) =>
      /\ loc[s].tagsQuery = <<>> =>
           /\ loc[s].totalCount = Cardinality(posts)
           /\ loc[s].page = 1 => Range(Ids(loc[s].posts)) = {p.id : p \in posts}
      /\ (\E n \in Range(normTagsOf(loc[s].tagsQuery)) : n \notin Vocabulary) =>
           /\ loc[s].posts = <<>>
           /\ loc[s].totalCount = 0

\* the unknown name came with a known name that tags a post
C2_Witness ==
  \E s \in DOMAIN pc :
    /\ IsSearchDone(s)
    /\ \E n \in Range(normTagsOf(loc[s].tagsQuery)) : n \notin Vocabulary
    /\ \E n \in Range(normTagsOf(loc[s].tagsQuery)) : TaggedWithAll({n}) # {}
    /\ loc[s].posts = <<>>

IsTagging(s) == pc[s] # "idle" /\ loc[s].kind \in {"upload", "edit"} /\ loc[s].status \in {0, 302}

\* the name a request in ensureTagIds is resolving
Resolving(s) == loc[s].tags[Len(loc[s].ids) + 1]

\* C3: the tags relation never holds two rows with the same name (Spec)
C3_UniqueTagNames ==
  \A a \in tags, b \in tags : a.name = b.name => a = b

\* two requests read "no row" for the same name, one has inserted it, and the
\* other is about to insert
C3_Witness ==
  \E a \in DOMAIN pc, b \in DOMAIN pc :
    /\ a # b
    /\ pc[b] = "ensure_ins"
    /\ IsTagging(a) /\ Len(loc[a].ids) >= 1
    /\ loc[a].tags[1] = Resolving(b)
    /\ loc[a].ids[1] = tagSeq
    /\ Resolving(b) \in Vocabulary

\* C4: a race of two requests on the same new tag name is invisible to both:
\* no ensureTagIds call ends in an error (Spec)
C4_ConflictInvisible ==
  \A s \in DOMAIN pc :
    (pc[s] # "idle" /\ loc[s].kind \in {"upload", "edit"}) => pc[s] # "failed"

\* C5: a reader of a post's tags that runs while an edit of the post is in
\* progress sees the complete old tag set or the complete new one (Spec)
C5_AtomicToReaders ==
  \A r \in DOMAIN pc :
    (/\ pc[r] \in {"view_likes", "view_liked", "view_fav", "done"}
     /\ loc[r].kind = "view"
     /\ loc[r].status # 404)
    => \A e \in loc[r].during : loc[r].tags \in {e.old, e.new}

\* no request that names post pid is between its first statement and its response
Quiet(pid) ==
  \A s \in DOMAIN pc :
    (pc[s] \notin {"idle", "done"} /\ loc[s].kind \in {"upload", "edit", "delete"})
    => loc[s].post # pid /\ loc[s].post # 0

\* C6: once no operation on a post is in progress (and none has failed), the
\* post's tags are exactly the tag list of one create or edit operation (Spec)
C6_FullReplacement ==
  \A p \in posts :
    Quiet(p.id) =>
      \E s \in DOMAIN pc :
        /\ pc[s] = "done"
        /\ loc[s].kind \in {"upload", "edit"}
        /\ loc[s].status = 302
        /\ loc[s].post = p.id
        /\ TagNamesOf(p.id) = Range(loc[s].tags)

\* C7: ensureTagIds returns, in input order, the identifier of the row of each
\* name; two calls return the same identifier for the same name; and the
\* vocabulary holds one row per resolved name (Spec)
C7_EnsureStable ==
  /\ \A s \in DOMAIN pc :
       IsTagging(s) =>
         /\ Len(loc[s].ids) <= Len(loc[s].tags)
         /\ pc[s] \in {"attach", "done"} => Len(loc[s].ids) = Len(loc[s].tags)
         /\ \A i \in 1..Len(loc[s].ids) :
              [id |-> loc[s].ids[i], name |-> loc[s].tags[i]] \in tags
  /\ \A a \in DOMAIN pc, b \in DOMAIN pc :
       (IsTagging(a) /\ IsTagging(b)) =>
         \A i \in 1..Len(loc[a].ids), j \in 1..Len(loc[b].ids) :
           loc[a].tags[i] = loc[b].tags[j] => loc[a].ids[i] = loc[b].ids[j]
  /\ Cardinality(tags) = Cardinality(Vocabulary)
  /\ Cardinality(tags) = tagSeq

\* two finished calls, one for #a and one for the list #b, #a
C7_Witness ==
  \E a \in DOMAIN pc, b \in DOMAIN pc :
    /\ pc[a] = "done" /\ pc[b] = "done"
    /\ IsTagging(a) /\ IsTagging(b)
    /\ loc[a].tags = <<Ta>> /\ loc[a].ids = <<1>>
    /\ loc[b].tags = <<Tb, Ta>> /\ loc[b].ids = <<2, 1>>
    /\ Cardinality(tags) = 2

\* C8: no step removes a tags row or maps a name that has an identifier to
\* another identifier (SpecAll)
C8_VocabularyGrows ==
  [][\A r \in tags : r \in tags' /\ \A x \in tags' : x.name = r.name => x = r]_vars

\* a post was deleted and a tag no post uses is still in the vocabulary
C8_Witness ==
  \E s \in DOMAIN pc :
    /\ pc[s] = "done" /\ loc[s].kind = "delete" /\ loc[s].status = 302
    /\ \E t \in tags : TagCount(t.id) = 0

\* the pages 1..k of the client, one after the other
RECURSIVE ConcatPages(_)
ConcatPages(k) == IF k = 0 THEN <<>> ELSE ConcatPages(k - 1) \o loc[k].posts

AllPagesDone == \A s \in DOMAIN pc : IsSearchDone(s)

\* the sort key of a post under the request's ORDER BY, read from the store
KeyOf(pid, sort) ==
  LET p == CHOOSE q \in posts : q.id = pid
  IN  IF sort = "created_at ASC" THEN p.created_at
      ELSE IF sort = "created_at DESC" THEN 0 - p.created_at
      ELSE 0 - LikesCount(pid)

C10_OneRowPerPair ==
  /\ \A row \in DOMAIN likes : likes[row] <= 1
  /\ \A row \in DOMAIN favorites : favorites[row] <= 1

\* two toggles of one user on one post both read "no row"; one has inserted
C10_Witness ==
  \E a \in DOMAIN pc, b \in DOMAIN pc :
    /\ a # b
    /\ pc[a] \in {"like_count", "done"} /\ loc[a].kind = "like" /\ loc[a].status # 401
    /\ pc[b] = "like_ins"
    /\ loc[a].user = loc[b].user /\ loc[a].post = loc[b].post
    /\ BagIn(<<loc[b].user, loc[b].post>>, likes)
\* an edit or delete request whose handler is past its ownership check
IsMutating(s) ==
  /\ loc[s].kind \in {"edit", "delete"}
  /\ pc[s] \in {"ed_fallback", "ed_delete", "ensure_get", "ensure_ins", "attach",
               "del_tags", "del_post"}

\* C11: an edit or delete request is either rejected with 401, 403 or 404 on
\* arrival, leaving posts, post_tags and tags as they were, or it comes from
\* the user who owns the post; every later step of an edit or delete handler
\* belongs to a request of the post's owner (Spec)
C11_OwnerOnly ==
  [][\A s \in DOMAIN pc :
       /\ (pc[s] = "idle" /\ pc'[s] # "idle" /\ loc'[s].kind \in {"edit", "delete"}) =>
            /\ <<posts, post_tags, tags>>' = <<posts, post_tags, tags>>
            /\ \/ pc'[s] = "done" /\ loc'[s].status \in {401, 403, 404}
               \/ /\ loc'[s].status = 0
                  /\ loc'[s].user # NoUser
                  /\ \E p \in posts : p.id = loc'[s].post /\ p.user_id = loc'[s].user
       /\ (IsMutating(s) /\ pc'[s] # pc[s]) =>
            /\ loc[s].user # NoUser
            /\ \A p \in posts : p.id = loc[s].post => p.user_id = loc[s].user
    ]_vars

\* an edit and a delete were both refused with 403 while the post and its
\* tags are in the store
C11_Witness ==
  \E a \in DOMAIN pc, b \in DOMAIN pc :
    /\ pc[a] = "done" /\ loc[a].kind = "edit" /\ loc[a].status = 403
    /\ pc[b] = "done" /\ loc[b].kind = "delete" /\ loc[b].status = 403
    /\ posts # {} /\ post_tags # {} /\ tags # {}
IsAutocompleteDone(s) == pc[s] = "done" /\ loc[s].kind = "autocomplete"

\* C12: an autocomplete request whose q is empty once its leading markers are
\* stripped is answered with the empty sequence; every request is answered
\* with at most 10 suggestions and leaves the store as it was (SpecSearch)
C12_RejectsEmptyPrefix ==
  [][\A s \in DOMAIN pc :
       (pc[s] = "idle" /\ pc'[s] # "idle" /\ loc'[s].kind = "autocomplete") =>
         /\ store' = store
         /\ Len(loc'[s].rows) <= acLimit
         /\ stripHashes(loc'[s].q) = <<>> => loc'[s].rows = <<>>
    ]_vars

\* the part of the statement that the handler keeps: the empty q is answered
\* with the empty sequence, no answer is longer than 10 and the store is left
\* alone (SpecSearch)
AutocompleteEmptyQ ==
  [][\A s \in DOMAIN pc :
       (pc[s] = "idle" /\ pc'[s] # "idle" /\ loc'[s].kind = "autocomplete") =>
         /\ store' = store
         /\ Len(loc'[s].rows) <= acLimit
         /\ loc'[s].q = <<>> => loc'[s].rows = <<>>
    ]_vars

\* the search box never sends a prefix that is empty or starts with a marker
InputSendsPrefix ==
  \A x \in InputTexts : inputPrefix(x) = <<>> \/ ~startsWithHash(inputPrefix(x))
\* the suggestion list or popular-tags list a finished request rendered
RankedOf(s) == IF loc[s].kind = "autocomplete" THEN loc[s].rows ELSE loc[s].popularTags

IsRankingDone(s) == pc[s] = "done" /\ loc[s].kind \in {"autocomplete", "search"}

C13_WitnessTie ==
  /\ IsRankingDone(1) /\ IsRankingDone(2)
  /\ loc[1].kind = "search" /\ loc[2].kind = "search"
  /\ Len(loc[1].popularTags) = 3
  /\ loc[1].popularTags[1].cnt = loc[1].popularTags[2].cnt
\* the whitespace-separated tokens of a text that start with a marker
MarkedTokens(text) ==
  LET toks == split(text, Ws)
  IN  SelectSeq(toks, startsWithHash)

\* the canonical form the spec gives a token: lower case, one leading marker
Canon(tok) == <<Hash>> \o toLowerCase(stripHashes(tok))

\* C14: parseTags applied to the space-joined result of parseTags(x) returns
\* that result again; the result has no duplicates and lists the canonical
\* tags of x in the order of their first occurrence (SpecParse)
C14_ParseIdempotent ==
  \A s \in DOMAIN pc :
    /\ (pc[s] \in {"parsed", "done"} /\ loc[s].kind \in {"parse", "reparse"}) =>
         LET r  == loc[s].tags
             mk == MarkedTokens(loc[s].text)
             First(g) == Min({i \in 1..Len(mk) : Canon(mk[i]) = g})
         IN  /\ \A i \in 1..Len(r), j \in 1..Len(r) : r[i] = r[j] => i = j
             /\ Range(r) = {Canon(mk[i]) : i \in 1..Len(mk)}
             /\ \A i \in 1..Len(r), j \in 1..Len(r) : i < j => First(r[i]) < First(r[j])
    /\ (pc[s] = "done" /\ loc[s].kind = "reparse") => loc[s].again = loc[s].tags

\* a text with a repeated tag in another case and with doubled markers was
\* parsed twice
C14_Witness ==
  \E s \in DOMAIN pc :
    /\ pc[s] = "done" /\ loc[s].kind = "reparse"
    /\ loc[s].text = <<"#", "#", "A", " ", "#", "a">>
    /\ loc[s].tags = << Ta >>
    /\ loc[s].again = << Ta >>
\* C15: a search whose list names one vocabulary tag several times returns
\* what the search for that tag named once returns: the posts tagged with it,
\* and their number as totalCount (SpecSearch)
C15_SearchDedups ==
  \A s \in DOMAIN pc :
    (/\ IsSearchDone(s)
     /\ Len(loc[s].tagsQuery) >= 2
     /\ Cardinality(Range(loc[s].normTags)) = 1
     /\ Range(loc[s].normTags) \subseteq Vocabulary)
    => /\ loc[s].totalCount = Cardinality(TaggedWithAll(Range(loc[s].normTags)))
       /\ loc[s].page = 1 =>
            Range(Ids(loc[s].posts)) = TaggedWithAll(Range(loc[s].normTags))

\* the search for a tag named once does return the posts tagged with it
\* (SpecSearch)
SearchNamedOnce ==
  \A s \in DOMAIN pc :
    (/\ IsSearchDone(s)
     /\ Len(loc[s].tagsQuery) = 1
     /\ Range(loc[s].normTags) \subseteq Vocabulary)
    => /\ loc[s].totalCount = Cardinality(TaggedWithAll(Range(loc[s].normTags)))
       /\ loc[s].page = 1 =>
            Range(Ids(loc[s].posts)) = TaggedWithAll(Range(loc[s].normTags))
\* whether text starts with the characters of prefix
StartsWith(text, prefix) ==
  Len(text) >= Len(prefix) /\ SubSeq(text, 1, Len(prefix)) = prefix

\* C16: every suggestion of an autocomplete answer has a name that starts
\* with the normalized prefix, '#' followed by the lower-cased q (SpecSearch)
C16_SuggestionsHavePrefix ==
  \A s \in DOMAIN pc :
    IsAutocompleteDone(s) =>
      \A i \in 1..Len(loc[s].rows) :
        StartsWith(loc[s].rows[i].name, normalizedOf(loc[s].q))

\* the same statement for a q without the LIKE wildcards % and _: it holds
\* (SpecSearch)
SuggestionsHavePlainPrefix ==
  \A s \in DOMAIN pc :
    (IsAutocompleteDone(s) /\ \A i \in 1..Len(loc[s].q) : loc[s].q[i] \notin {"%", "_"}) =>
      \A i \in 1..Len(loc[s].rows) :
        StartsWith(loc[s].rows[i].name, normalizedOf(loc[s].q))
\* a finished upload whose tag field held a text that parseTags reads as tgs
UploadedWith(u, tgs) ==
  /\ pc[u] = "done" /\ loc[u].kind = "upload" /\ loc[u].status = 302
  /\ loc[u].tags = tgs

\* C17: a post uploaded with the one-token tag text t is on the first page of
\* a later search for the same token t, whatever its case and however many
\* leading markers it has (SpecEntry; requests are numbered in arrival order)
C17_SharedCanonicalForm ==
  \A s \in DOMAIN pc, u \in DOMAIN pc :
    (/\ IsSearchDone(s)
     /\ Len(loc[s].tagsQuery) = 1
     /\ startsWithHash(loc[s].tagsQuery[1])
     /\ u < s
     /\ UploadedWith(u, parseTags(loc[s].tagsQuery[1]))
     /\ loc[s].page = 1)
    => loc[u].post \in Range(Ids(loc[s].posts))

\* the same statement for tokens with exactly one leading marker: it holds
\* (SpecEntry)
SharedFormOneMarker ==
  \A s \in DOMAIN pc, u \in DOMAIN pc :
    (/\ IsSearchDone(s)
     /\ Len(loc[s].tagsQuery) = 1
     /\ startsWithHash(loc[s].tagsQuery[1])
     /\ ~startsWithHash(Tail(loc[s].tagsQuery[1]))
     /\ u < s
     /\ UploadedWith(u, parseTags(loc[s].tagsQuery[1]))
     /\ loc[s].page = 1)
    => loc[u].post \in Range(Ids(loc[s].posts))

\* an upload with '#A' was found by the search for '#A'
SharedFormReached ==
  \E s \in DOMAIN pc, u \in DOMAIN pc :
    /\ IsSearchDone(s) /\ loc[s].tagsQuery = << <<"#", "A">> >> /\ loc[s].page = 1
    /\ u < s /\ UploadedWith(u, << Ta >>)
    /\ loc[u].post \in Range(Ids(loc[s].posts))
\* a token made of marker characters only
OnlyMarkers(tok) == tok # <<>> /\ \A i \in 1..Len(tok) : tok[i] = Hash

\* C18: no element of a parseTags result is the bare "#": every element has a
\* non-marker character after its one leading marker; a text whose tokens are
\* all made of markers only gives the empty sequence (SpecParse)
C18_DropsMarkerOnlyTokens ==
  \A s \in DOMAIN pc :
    (pc[s] \in {"parsed", "done"} /\ loc[s].kind \in {"parse", "reparse"}) =>
      LET r  == loc[s].tags
          mk == MarkedTokens(loc[s].text)
      IN  /\ \A i \in 1..Len(r) :
               /\ r[i] # <<Hash>>
               /\ Len(r[i]) >= 2 /\ r[i][1] = Hash /\ r[i][2] # Hash
          /\ (\A i \in 1..Len(mk) : OnlyMarkers(mk[i])) => r = <<>>

\* what parseTags does keep to: every element starts with exactly one marker,
\* and a text without a marked token gives the empty sequence (SpecParse)
ParseKeepsOneMarker ==
  \A s \in DOMAIN pc :
    (pc[s] \in {"parsed", "done"} /\ loc[s].kind \in {"parse", "reparse"}) =>
      LET r  == loc[s].tags
          mk == MarkedTokens(loc[s].text)
      IN  /\ \A i \in 1..Len(r) :
               /\ r[i][1] = Hash
               /\ Len(r[i]) >= 2 => r[i][2] # Hash
          /\ mk = <<>> => r = <<>>
IsMostLikedDone(s) == IsSearchDone(s) /\ loc[s].sort = "likes_count DESC"

\* C19: the posts of a finished sort=likes search come in descending order of
\* like count, and of two posts with equal like counts the one created later
\* comes first (SpecSearch)
C19_MostLikedTieBreak ==
  \A s \in DOMAIN pc :
    IsMostLikedDone(s) =>
      \A i \in 1..Len(loc[s].posts), j \in 1..Len(loc[s].posts) :
        i < j =>
          \/ loc[s].posts[i].likes_count > loc[s].posts[j].likes_count
          \/ /\ loc[s].posts[i].likes_count = loc[s].posts[j].likes_count
             /\ loc[s].posts[i].created_at >= loc[s].posts[j].created_at

\* the order by like count alone holds (SpecSearch)
MostLikedDescending ==
  \A s \in DOMAIN pc :
    IsMostLikedDone(s) =>
      \A i \in 1..Len(loc[s].posts), j \in 1..Len(loc[s].posts) :
        i < j => loc[s].posts[i].likes_count >= loc[s].posts[j].likes_count
\* no handler is between its first statement and its response (a handler that
\* threw has ended)
NoRequestInProgress == \A s \in DOMAIN pc : pc[s] \in {"idle", "done", "failed"}

\* C20: whenever no request is in progress, every post_tags row names a post
\* that is in posts (Spec)
C20_PostTagsReferPosts ==
  NoRequestInProgress =>
    \A pt \in post_tags : \E p \in posts : p.id = pt[1]

\* the same statement for the tag side of the relation: every post_tags row
\* names a tag that is in tags; it holds in every state (Spec)
PostTagsReferTags ==
  \A pt \in post_tags : \E r \in tags : r.id = pt[2]
\* an edit and a delete of one post have both answered 302 and the tag rows
\* the edit inserted name the deleted post
EditAfterDeleteReached ==
  \E e \in DOMAIN pc, d \in DOMAIN pc :
    /\ pc[e] = "done" /\ loc[e].kind = "edit" /\ loc[e].status = 302
    /\ pc[d] = "done" /\ loc[d].kind = "delete" /\ loc[d].status = 302
    /\ loc[e].post = loc[d].post
    /\ NoRequestInProgress
    /\ \E pt \in post_tags : pt[1] = loc[e].post
    /\ PostRows(loc[e].post) = {}
=============================================================================
